---- MODULE Spec2Model ----
(***************************************************************************)
(* Model of ipyvtk_simple/viewer.py: ViewInteractiveWidget, the bridge     *)
(* between browser interaction events and a VTK render window.             *)
(*                                                                         *)
(* Units.  Wall-clock times are integers in milliseconds; the quick-render *)
(* delay is an integer in microseconds (1000 = 0.001 s, 2000000 = 2.0 s).  *)
(* Float products and quotients are rounded to the nearest unit, as IEEE   *)
(* arithmetic rounds to the nearest representable value.                   *)
(*                                                                         *)
(* Collaborators.  The render window, its interactor, the encoder and the  *)
(* host canvas are outside the repository.  Every call the widget makes to *)
(* them, every append to one of its write-only diagnostic lists            *)
(* (logged_events, elapsed_times, age_of_processed_messages are never read *)
(* back by the widget), every entry into a throttled function or its body, *)
(* and every exception raised, is recorded in `calls`, the trace of the    *)
(* callback that ran last.                                                 *)
(***************************************************************************)
EXTENDS Integers, Sequences, FiniteSets, TLC

VARIABLES
    phase,                    \* "new" | "live" | "failed": before / after __init__
    construct_error,          \* the exception __init__ raised, or NoneVal
    quality,                  \* self._quality
    touching,                 \* self._touching
    last_touch,               \* self._last_touch
    last_render_time,         \* self.last_render_time
    quick_render_delay_sec,   \* self.quick_render_delay_sec, in microseconds
    adaptive_render_delay,    \* self.adaptive_render_delay
    last_mouse_move_event,    \* self.last_mouse_move_event: <<>> is None, <<e>> an event
    track_mouse_move,         \* self.track_mouse_move
    message_timestamp_offset, \* self.message_timestamp_offset: <<>> is None, <<v>> a value
    width, height,            \* canvas size, from render_window.GetSize()
    dragging,                 \* self.dragging
    error,                    \* self.error
    log_events,               \* self.log_events
    watch_wheel,              \* "wheel" in self.interaction_events.watched_events
    full_last_call,           \* time of the last full_render call the throttle let through
    quick_last_call,          \* time of the last quick_render call the throttle let through
    on_close_calls,           \* number of times self._on_close has been invoked
    comm_open,                \* the widget's comm, closed by Widget.close()
    now,                      \* time.time()
    alive,                    \* whether self._render_window() still resolves
    calls,                    \* collaborator calls and log appends of the last callback
    raised,                   \* the exception the last callback let escape, or NoneVal
    last,                     \* the last callback: its name, its event, whether it took it
    lastMove,                 \* history: position of the pointermove accepted last since an
                              \* enter/leave discarded the pending one, <<>> if none
    moveInjected              \* history: whether a mouse-move carrying lastMove was injected

selfVars == <<quality, touching, last_touch, last_render_time, quick_render_delay_sec,
              adaptive_render_delay, last_mouse_move_event, track_mouse_move,
              message_timestamp_offset, width, height, dragging, error, log_events,
              watch_wheel, full_last_call, quick_last_call>>

vars == <<phase, construct_error, selfVars, on_close_calls, comm_open, now, alive,
          calls, raised, last, lastMove, moveInjected>>

-----------------------------------------------------------------------------
(* Values *)

NoneVal == "<None>"

\* str(e) of the exceptions a callback can meet.
WindowClosed == "VTK render window has closed"
MissingOffsetX == "'offsetX'"
FrameFailure == "frame failure"

\* time.time() when the session is constructed.
Epoch == 100000

\* The instants at which the clock is observed, relative to Epoch: a coarse
\* clock, and one that also falls between the two throttles' waits.
Instants == {0, 100}
FineInstants == {0, 5, 50, 100}

\* Message latencies: a DOM event stamped timeStamp is handled that many ms later.
Prompt == {0}
Latency == {0, 1, 5000}
Jitter == {0, 1, 3}

\* Number of teardown calls explored.
MaxClose == 2

WindowSize == <<200, 100>>
Qualities == {0 - 2, 0 - 1, 0, 1, 80, 99, 100, 101, 102}
Keys == {"a", "Shift", "Control", "Alt"}
TouchLocs == {<<15, 25>>}

-----------------------------------------------------------------------------
(* Events *)

DomModifiers == {"shiftKey", "ctrlKey", "altKey"}

Ev(name, ks, x, y, bw, bh, b, k, dy) ==
    [event |-> name, keys |-> ks, offsetX |-> x, offsetY |-> y,
     boundingRectWidth |-> bw, boundingRectHeight |-> bh,
     button |-> b, key |-> k, deltaY |-> dy]

Offsets == {"offsetX", "offsetY"}
Rect == {"boundingRectWidth", "boundingRectHeight"}

MouseMoveEvents ==
    { Ev("mousemove", Offsets \cup DomModifiers, 10, 20, 0, 0, 0, "", 0),
      Ev("mousemove", Offsets \cup Rect \cup DomModifiers, 25, 7, 80, 40, 0, "", 0) }

CrossingEvents ==
    { Ev(n, Offsets \cup Rect \cup DomModifiers, 50, 40, 100, 50, 0, "", 0) :
        n \in {"mouseenter", "mouseleave"} }

ButtonEvents ==
    { Ev(n, Offsets \cup Rect \cup DomModifiers \cup {"button"}, 50, 40, 100, 50, b, "", 0) :
        n \in {"mousedown", "mouseup"}, b \in {0, 1, 2} }

KeyEvents ==
    { Ev(n, DomModifiers \cup {"key"}, 0, 0, 0, 0, 0, k, 0) :
        n \in {"keydown", "keyup"}, k \in Keys }

WheelEvents ==
    { Ev("wheel", Offsets \cup Rect \cup DomModifiers \cup {"deltaY"}, 50, 40, 100, 50, 0, "", dy) :
        dy \in {-1, 1} }

OtherEvents == { Ev("contextmenu", Offsets \cup Rect \cup DomModifiers, 50, 40, 100, 50, 0, "", 0) }

DomEvents ==
    MouseMoveEvents \cup CrossingEvents \cup ButtonEvents \cup KeyEvents
        \cup WheelEvents \cup OtherEvents

NoEvent == Ev(NoneVal, {}, 0, 0, 0, 0, 0, "", 0)

-----------------------------------------------------------------------------
(* Calls recorded in the trace *)

Call(op) == [op |-> op, x |-> 0, y |-> 0, s |-> ""]
CallXY(op, x, y) == [op |-> op, x |-> x, y |-> y, s |-> ""]
CallS(op, s) == [op |-> op, x |-> 0, y |-> 0, s |-> s]

-----------------------------------------------------------------------------
(* The session as one record, so that sequential code composes.  `exc` is  *)
(* the exception in flight: every statement is skipped while one is.       *)

Self ==
    [phase |-> phase, quality |-> quality, touching |-> touching, last_touch |-> last_touch,
     last_render_time |-> last_render_time,
     quick_render_delay_sec |-> quick_render_delay_sec,
     adaptive_render_delay |-> adaptive_render_delay,
     last_mouse_move_event |-> last_mouse_move_event,
     track_mouse_move |-> track_mouse_move,
     message_timestamp_offset |-> message_timestamp_offset,
     width |-> width, height |-> height, dragging |-> dragging, error |-> error,
     log_events |-> log_events, watch_wheel |-> watch_wheel,
     full_last_call |-> full_last_call, quick_last_call |-> quick_last_call,
     now |-> now, alive |-> alive, calls |-> <<>>, exc |-> NoneVal]

Raising(m) == m.exc # NoneVal
\* raise: the exception is noted in the trace as it is raised.
Raise(m, msg) ==
    IF Raising(m) THEN m
    ELSE [m EXCEPT !.exc = msg, !.calls = Append(@, CallS("raise", msg))]
Record(m, c) == IF Raising(m) THEN m ELSE [m EXCEPT !.calls = Append(@, c)]

\* except Exception as e: self.error = str(e)
Except(m) == IF Raising(m) THEN [m EXCEPT !.error = m.exc, !.exc = NoneVal] ELSE m

\* self.render_window.<c>: the weak reference is resolved first.
render_window(m, c) ==
    IF Raising(m) THEN m
    ELSE IF ~m.alive THEN Raise(m, WindowClosed)
    ELSE Record(m, c)

\* self.interactor.<c>
interactor(m, c) == render_window(m, c)

-----------------------------------------------------------------------------
(* Quick-render delay *)

quick_render_delay_sec_range == <<1000, 2000000>>

\* Variant: the lower end of the range is not enforced.
set_quick_render_delay_NoFloor(m, delay_sec) ==
    IF Raising(m) THEN m
    ELSE IF delay_sec > quick_render_delay_sec_range[2]
         THEN [m EXCEPT !.quick_render_delay_sec = quick_render_delay_sec_range[2]]
    ELSE [m EXCEPT !.quick_render_delay_sec = delay_sec]

set_quick_render_delay(m, delay_sec) ==
    IF Raising(m) THEN m
    ELSE IF delay_sec < quick_render_delay_sec_range[1]
         THEN [m EXCEPT !.quick_render_delay_sec = quick_render_delay_sec_range[1]]
    ELSE IF delay_sec > quick_render_delay_sec_range[2]
         THEN [m EXCEPT !.quick_render_delay_sec = quick_render_delay_sec_range[2]]
    ELSE [m EXCEPT !.quick_render_delay_sec = delay_sec]

\* d * 1.05 and d / 1.05, rounded to the nearest microsecond.
Times105(d) == (d * 105 + 50) \div 100
Over105(d) == (d * 200 + 105) \div 210

-----------------------------------------------------------------------------
(* Rendering *)

\* get_image: self.render_window.Render() when forced; `fail` is the renderer
\* or the encoder failing on this frame.
Rendered(m, force_render, fail) ==
    IF Raising(m) \/ ~force_render THEN m
    ELSE IF ~m.alive THEN Raise(m, WindowClosed)
    ELSE IF fail THEN Raise(Record(m, Call("Render")), FrameFailure)
    ELSE Record(m, Call("Render"))

\* The frame encoded at self._quality and drawn on the canvas.
Drawn(m) == Record(Record(m, CallXY("save", m.quality, 0)), Call("draw_image"))

\* update_canvas: lines 215-243.
update_canvas(m, force_render, fail) ==
    Drawn(render_window(Rendered(m, force_render, fail), Call("GetRGBACharPixelData")))

\* Whether a throttled function called at t is dropped.
TooSoon(t, last_call, wait) == t - last_call < wait

full_render_wait == 100
quick_render_wait == 10

set_last_render_time(m) ==
    IF Raising(m) THEN m ELSE [m EXCEPT !.last_render_time = m.now]

\* The body of full_render: lines 247-254.
full_render_body(m, fail) ==
    Except(set_last_render_time(
        update_canvas(Record(m, Call("full_render.body")), TRUE, fail)))

\* Variant: full_render without its throttle.
full_render_Unthrottled(m, fail) ==
    IF Raising(m) THEN m
    ELSE full_render_body(
            [Record(m, Call("full_render")) EXCEPT !.full_last_call = m.now], fail)

\* full_render as the throttle wraps it: line 245.
full_render(m, fail) ==
    IF Raising(m) THEN m
    ELSE IF TooSoon(m.now, m.full_last_call, full_render_wait)
         THEN Record(m, Call("full_render"))
    ELSE full_render_body(
            [Record(m, Call("full_render")) EXCEPT !.full_last_call = m.now], fail)

\* An event's position as the interactor is given it: line 283.
EventPosition(m, event) == <<event.offsetX, m.height - event.offsetY>>

KEY_TO_SYM(key) == IF key \in {"Shift", "Control", "Alt"} THEN key \o "_L" ELSE key

InteractorIf(cond, m, c) == IF cond THEN interactor(m, c) ELSE m

\* Lines 276-281.
SetKey(m, event) ==
    interactor(
        InteractorIf(Len(event.key) = 1,
                     interactor(m, CallS("SetKeySym", KEY_TO_SYM(event.key))),
                     CallS("SetKeyCode", event.key)),
        CallXY("SetRepeatCount", 1, 0))

\* Lines 283-285: self.interactor is resolved before event["offsetX"] is read.
SetPosition(m, event) ==
    IF ~m.alive THEN Raise(m, WindowClosed)
    ELSE IF "offsetX" \notin event.keys THEN Raise(m, MissingOffsetX)
    ELSE interactor(m, CallXY("SetEventPosition", EventPosition(m, event)[1],
                              EventPosition(m, event)[2]))

\* Lines 286-291.
SetModifiers(m, event) ==
    InteractorIf("altKey" \in event.keys,
        InteractorIf("ctrlKey" \in event.keys,
            InteractorIf("shiftKey" \in event.keys, m, Call("SetShiftKey")),
            Call("SetControlKey")),
        Call("SetAltKey"))

update_interactor_event_data(m, event) ==
    IF Raising(m) THEN m
    ELSE IF event.event \in {"keydown", "keyup"}
         THEN Except(SetModifiers(SetKey(m, event), event))
    ELSE Except(SetModifiers(SetPosition(m, event), event))

clear_last_mouse_move_event(m) ==
    IF Raising(m) THEN m ELSE [m EXCEPT !.last_mouse_move_event = <<>>]

\* Variant: the pending move is neither injected nor cleared.
send_pending_mouse_move_event_Skipped(m) == m

\* Lines 256-260.
send_pending_mouse_move_event(m) ==
    IF Raising(m) \/ m.last_mouse_move_event = <<>> THEN m
    ELSE clear_last_mouse_move_event(
            interactor(update_interactor_event_data(m, m.last_mouse_move_event[1]),
                       Call("MouseMoveEvent")))

RecordIf(cond, m, c) == IF cond THEN Record(m, c) ELSE m

\* Variant: quick_render without the flush of the pending move.
quick_render_body_NoFlush(m, fail) ==
    Except(set_last_render_time(
        RecordIf(m.log_events,
                 update_canvas(Record(m, Call("quick_render.body")), TRUE, fail),
                 Call("elapsed_times.append"))))

\* The body of quick_render: lines 264-271.
quick_render_body(m, fail) ==
    Except(set_last_render_time(
        RecordIf(m.log_events,
                 update_canvas(
                    send_pending_mouse_move_event(Record(m, Call("quick_render.body"))),
                    TRUE, fail),
                 Call("elapsed_times.append"))))

\* quick_render as the throttle wraps it: line 262.
quick_render(m, fail) ==
    IF Raising(m) THEN m
    ELSE IF TooSoon(m.now, m.quick_last_call, quick_render_wait)
         THEN Record(m, Call("quick_render"))
    ELSE quick_render_body(
            [Record(m, Call("quick_render")) EXCEPT !.quick_last_call = m.now], fail)

-----------------------------------------------------------------------------
(* handle_interaction_event *)

\* Variant: truncation instead of rounding.
PyRound_Floor(n, d) == n \div d

\* Python's round() of n / d for n >= 0, d > 0: to the nearest, halves to even.
PyRound(n, d) ==
    IF 2 * (n % d) < d THEN n \div d
    ELSE IF 2 * (n % d) > d THEN (n \div d) + 1
    ELSE IF (n \div d) % 2 = 0 THEN n \div d ELSE (n \div d) + 1

\* Lines 304-308: the event's offsets rescaled to the canvas, in place.
Rescale(m, event) ==
    IF "offsetX" \in event.keys /\ "boundingRectWidth" \in event.keys
    THEN [event EXCEPT
            !.offsetX = PyRound(event.offsetX * m.width, event.boundingRectWidth),
            !.offsetY = PyRound(event.offsetY * m.height, event.boundingRectHeight)]
    ELSE event

\* now - (timeStamp + message_timestamp_offset), in ms.
AgeOfProcessedMessage(m, timeStamp) == m.now - (timeStamp + m.message_timestamp_offset[1])

\* Variant: the two corrections exchanged.
Adapted_Reversed(m, age) ==
    IF 2000 * age > 3 * m.quick_render_delay_sec
    THEN set_quick_render_delay(m, Over105(m.quick_render_delay_sec))
    ELSE IF 2000 * age < m.quick_render_delay_sec
    THEN set_quick_render_delay(m, Times105(m.quick_render_delay_sec))
    ELSE m

\* Lines 328-333.
Adapted(m, age) ==
    IF 2000 * age > 3 * m.quick_render_delay_sec
    THEN set_quick_render_delay(m, Times105(m.quick_render_delay_sec))
    ELSE IF 2000 * age < m.quick_render_delay_sec
    THEN set_quick_render_delay(m, Over105(m.quick_render_delay_sec))
    ELSE m

\* Lines 335-338.
LogAge(m, age) ==
    RecordIf(m.log_events, m,
             CallXY("age_of_processed_messages.append", age, m.quick_render_delay_sec))

\* Lines 323-338.
AdaptDelay(m, timeStamp) ==
    IF m.adaptive_render_delay /\ ~m.touching
    THEN LogAge(Adapted(m, AgeOfProcessedMessage(m, timeStamp)),
                AgeOfProcessedMessage(m, timeStamp))
    ELSE m

\* Variant: a pending move is kept, a later one discarded.
StoreMove_KeepFirst(m, event, timeStamp) ==
    [m EXCEPT !.message_timestamp_offset = IF @ = <<>> THEN <<m.now - timeStamp>> ELSE @,
              !.last_mouse_move_event = IF @ = <<>> THEN <<event>> ELSE @]

\* Lines 315-320.
StoreMove(m, event, timeStamp) ==
    [m EXCEPT !.message_timestamp_offset = IF @ = <<>> THEN <<m.now - timeStamp>> ELSE @,
              !.last_mouse_move_event = <<event>>]

\* Lines 341-342.
RenderIfDue(m, fail) ==
    IF (m.now - m.last_render_time) * 1000 > m.quick_render_delay_sec
    THEN quick_render(m, fail)
    ELSE m

\* Variant: every move is tracked, dragging or not.
TrackMove_Always(m, timeStamp, fail) == RenderIfDue(AdaptDelay(m, timeStamp), fail)

\* Lines 321-342.
TrackMove(m, timeStamp, fail) ==
    IF ~m.dragging /\ ~m.track_mouse_move THEN m
    ELSE RenderIfDue(AdaptDelay(m, timeStamp), fail)

\* Lines 314-342.
OnMouseMove(m, event, timeStamp, fail) ==
    TrackMove(StoreMove(m, event, timeStamp), timeStamp, fail)

\* Lines 343-346.
OnMouseEnter(m, event) ==
    clear_last_mouse_move_event(
        interactor(update_interactor_event_data(m, event), Call("EnterEvent")))

set_dragging(m, v) == IF Raising(m) THEN m ELSE [m EXCEPT !.dragging = v]

\* Variant: leaving the canvas does not end a drag.
ReleaseIfDragging_Never(m) == m

\* Lines 351-353.
ReleaseIfDragging(m) ==
    IF m.dragging
    THEN set_dragging(interactor(m, Call("LeftButtonReleaseEvent")), FALSE)
    ELSE m

\* Lines 347-354.
OnMouseLeave(m, event, fail) ==
    full_render(
        ReleaseIfDragging(
            clear_last_mouse_move_event(
                interactor(update_interactor_event_data(m, event), Call("LeaveEvent")))),
        fail)

ButtonName(button) ==
    IF button = 0 THEN "Left" ELSE IF button = 2 THEN "Right"
    ELSE IF button = 1 THEN "Middle" ELSE ""

\* Lines 359-364 and 369-374.
ButtonEvent(m, button, kind) ==
    InteractorIf(ButtonName(button) # "", m, Call(ButtonName(button) \o kind))

\* Lines 355-365.
OnMouseDown(m, event, fail) ==
    full_render(
        ButtonEvent(
            update_interactor_event_data(
                send_pending_mouse_move_event(set_dragging(m, TRUE)), event),
            event.button, "ButtonPressEvent"),
        fail)

\* Lines 366-376.
OnMouseUp(m, event, fail) ==
    full_render(
        set_dragging(
            ButtonEvent(
                update_interactor_event_data(send_pending_mouse_move_event(m), event),
                event.button, "ButtonReleaseEvent"),
            FALSE),
        fail)

\* Variant: Alt is taken for an ordinary key.
IsModifierKey_NoAlt(key) == key = "Shift" \/ key = "Control"

\* Lines 382-386 and 392-396.
IsModifierKey(key) == key = "Shift" \/ key = "Control" \/ key = "Alt"

FullRenderIf(cond, m, fail) == IF cond THEN full_render(m, fail) ELSE m

\* Lines 377-387.
OnKeyDown(m, event, fail) ==
    FullRenderIf(~IsModifierKey(event.key),
        interactor(
            interactor(
                update_interactor_event_data(send_pending_mouse_move_event(m), event),
                Call("KeyPressEvent")),
            Call("CharEvent")),
        fail)

\* Lines 388-397.
OnKeyUp(m, event, fail) ==
    FullRenderIf(~IsModifierKey(event.key),
        interactor(
            update_interactor_event_data(send_pending_mouse_move_event(m), event),
            Call("KeyReleaseEvent")),
        fail)

\* Lines 398-406.
OnWheel(m, event, fail) ==
    IF m.watch_wheel
    THEN full_render(
            interactor(
                update_interactor_event_data(send_pending_mouse_move_event(m), event),
                Call(IF event.deltaY < 0 THEN "MouseWheelForwardEvent"
                     ELSE "MouseWheelBackwardEvent")),
            fail)
    ELSE m

\* Line 311: whether the touch session shuts the event out.
DroppedByTouch(m, event) == m.touching /\ "touch_event" \notin event.keys

\* Lines 314-406.
DispatchByName(m, event, timeStamp, fail) ==
    IF event.event = "mousemove" THEN OnMouseMove(m, event, timeStamp, fail)
    ELSE IF event.event = "mouseenter" THEN OnMouseEnter(m, event)
    ELSE IF event.event = "mouseleave" THEN OnMouseLeave(m, event, fail)
    ELSE IF event.event = "mousedown" THEN OnMouseDown(m, event, fail)
    ELSE IF event.event = "mouseup" THEN OnMouseUp(m, event, fail)
    ELSE IF event.event = "keydown" THEN OnKeyDown(m, event, fail)
    ELSE IF event.event = "keyup" THEN OnKeyUp(m, event, fail)
    ELSE IF event.event = "wheel" THEN OnWheel(m, event, fail)
    ELSE m

\* Variant: the touch session shuts nothing out.
Dispatch_NoExclusivity(m, event, timeStamp, fail) ==
    DispatchByName(m, event, timeStamp, fail)

\* Lines 311-406.
Dispatch(m, event, timeStamp, fail) ==
    IF DroppedByTouch(m, event) THEN m
    ELSE DispatchByName(m, event, timeStamp, fail)

\* Variant: the dispatch outside any try/except.
TryDispatch_NoTry(m, event, timeStamp, fail) == Dispatch(m, event, timeStamp, fail)

\* Lines 310-409: the dispatch inside try/except.
TryDispatch(m, event, timeStamp, fail) == Except(Dispatch(m, event, timeStamp, fail))

\* The whole handler: log, rescale, then the dispatch.
handle_interaction_event(m, event, timeStamp, fail) ==
    TryDispatch(RecordIf(m.log_events, m, Call("logged_events.append")),
                Rescale(m, event), timeStamp, fail)

-----------------------------------------------------------------------------
(* History *)

RECURSIVE LastIndex(_, _, _)
\* The greatest index i <= n of trace whose call is one of ops, or 0.
LastIndex(trace, ops, n) ==
    IF n = 0 THEN 0
    ELSE IF trace[n].op \in ops THEN n
    ELSE LastIndex(trace, ops, n - 1)

PositionOf(trace, j) == IF j = 0 THEN <<>> ELSE <<trace[j].x, trace[j].y>>

\* The position the interactor held when call number i of the trace was made.
PositionAt(trace, i) == PositionOf(trace, LastIndex(trace, {"SetEventPosition"}, i))

\* The positions carried by the mouse-move injections of the trace.
InjectedMoves(trace) ==
    { PositionAt(trace, i) : i \in { j \in 1..Len(trace) : trace[j].op = "MouseMoveEvent" } }

\* Whether the handler takes event as a pointer move.
AcceptedMove(m, event) == ~DroppedByTouch(m, event) /\ event.event = "mousemove"

MoveHistory(m, event, before) ==
    IF DroppedByTouch(m, event) THEN before
    ELSE IF event.event = "mousemove" THEN <<EventPosition(m, Rescale(m, event))>>
    ELSE IF event.event \in {"mouseenter", "mouseleave"} THEN <<>>
    ELSE before

RememberMove(move, fresh, trace) ==
    /\ lastMove' = move
    /\ moveInjected' = IF move = <<>> THEN FALSE
                       ELSE IF fresh THEN move[1] \in InjectedMoves(trace)
                       ELSE moveInjected \/ move[1] \in InjectedMoves(trace)

\* The history after handle_interaction_event(event) took m to r.
Remember(m, event, r) ==
    RememberMove(MoveHistory(m, event, lastMove), AcceptedMove(m, event), r.calls)

-----------------------------------------------------------------------------
(* Actions *)

\* The session's fields as a callback leaves them in r.
Commit(r) ==
    /\ phase' = r.phase
    /\ quality' = r.quality
    /\ touching' = r.touching
    /\ last_touch' = r.last_touch
    /\ last_render_time' = r.last_render_time
    /\ quick_render_delay_sec' = r.quick_render_delay_sec
    /\ adaptive_render_delay' = r.adaptive_render_delay
    /\ last_mouse_move_event' = r.last_mouse_move_event
    /\ track_mouse_move' = r.track_mouse_move
    /\ message_timestamp_offset' = r.message_timestamp_offset
    /\ width' = r.width
    /\ height' = r.height
    /\ dragging' = r.dragging
    /\ error' = r.error
    /\ log_events' = r.log_events
    /\ watch_wheel' = r.watch_wheel
    /\ full_last_call' = r.full_last_call
    /\ quick_last_call' = r.quick_last_call
    /\ calls' = r.calls
    /\ raised' = r.exc

\* The callback that ran last: its name, the event it was given, that event as
\* the callback left it, whether the touch session let it through, and its
\* numeric argument (the event's timeStamp; the quality given to __init__).
Callback(name, event, handled, accepted, arg) ==
    [op |-> name, event |-> event, handled |-> handled, accepted |-> accepted,
     arg |-> arg]

\* Before __init__: no field is assigned yet.
Unconstructed(t) ==
    [phase |-> "new", quality |-> 0, touching |-> FALSE, last_touch |-> 0,
     last_render_time |-> 0, quick_render_delay_sec |-> 0,
     adaptive_render_delay |-> FALSE, last_mouse_move_event |-> <<>>,
     track_mouse_move |-> FALSE, message_timestamp_offset |-> <<>>,
     width |-> 0, height |-> 0, dragging |-> FALSE, error |-> NoneVal,
     log_events |-> FALSE, watch_wheel |-> FALSE,
     full_last_call |-> 0, quick_last_call |-> 0,
     now |-> t, alive |-> TRUE, calls |-> <<>>, exc |-> NoneVal]

\* Lines 60-74.
InitFields(m) ==
    IF Raising(m) THEN m
    ELSE [m EXCEPT !.touching = FALSE, !.last_touch = m.now, !.last_render_time = 0,
                   !.quick_render_delay_sec = quick_render_delay_sec_range[1],
                   !.adaptive_render_delay = TRUE, !.last_mouse_move_event = <<>>,
                   !.track_mouse_move = FALSE, !.message_timestamp_offset = <<>>]

\* Line 80.
SetSize(m) ==
    IF Raising(m) THEN m
    ELSE [m EXCEPT !.width = WindowSize[1], !.height = WindowSize[2]]

\* Lines 88-140, or the exception leaving __init__.
InitRest(m, log, wheel) ==
    IF Raising(m) THEN [m EXCEPT !.phase = "failed"]
    ELSE [m EXCEPT !.dragging = FALSE, !.watch_wheel = wheel, !.error = NoneVal,
                   !.log_events = log, !.phase = "live"]

\* Lines 54-140.
InitBody(m, log, wheel, q, firstFrameFails) ==
         InitRest(
            update_canvas(
                SetSize(render_window(
                    InitFields(render_window([m EXCEPT !.quality = q],
                                             CallXY("SetOffScreenRendering", 1, 0))),
                    Call("GetSize"))),
                TRUE, firstFrameFails),
            log, wheel)

\* Variant: any quality is taken.
Init__Unchecked(m, log, wheel, q, firstFrameFails) ==
    InitBody(m, log, wheel, q, firstFrameFails)

\* __init__(render_window, log_events, allow_wheel, quality): lines 46-140.
\* The render window is alive (the caller holds it); firstFrameFails is the
\* renderer or encoder failing on the first frame.
Init__(m, log, wheel, q, firstFrameFails) ==
    IF q < 0 \/ q > 100 THEN [Raise(m, "ValueError") EXCEPT !.phase = "failed"]
    ELSE InitBody(m, log, wheel, q, firstFrameFails)

Constructed(r, q) ==
    /\ Commit(r)
    /\ construct_error' = r.exc
    /\ last' = Callback("__init__", NoEvent, NoEvent, FALSE, q)

Construct ==
    /\ phase = "new"
    /\ \E q \in Qualities, log \in BOOLEAN, wheel \in BOOLEAN, firstFrameFails \in BOOLEAN :
        Constructed(Init__(Self, log, wheel, q, firstFrameFails), q)
    /\ UNCHANGED <<on_close_calls, comm_open, now, alive, lastMove, moveInjected>>

\* The callback `name` handed event to handle_interaction_event in session m,
\* which left the session as r.
Handled(name, m, event, timeStamp, r) ==
    /\ Commit(r)
    /\ last' = Callback(name, event, Rescale(m, event), ~DroppedByTouch(m, event),
                         timeStamp)
    /\ Remember(m, event, r)

\* A DOM event delivered by the host to handle_interaction_event, `latency` ms
\* after the browser stamped it.
Interaction(events, latencies, failures) ==
    /\ phase = "live"
    /\ \E event \in events, fail \in failures :
       \E latency \in (IF event.event = "mousemove" THEN latencies ELSE {0}) :
        Handled("handle_interaction_event", Self, event, now - latency,
                handle_interaction_event(Self, event, now - latency, fail))
    /\ UNCHANGED <<construct_error, on_close_calls, comm_open, now, alive>>

\* A touch event as the touch callbacks synthesize it (lines 147-155, 160-166, 186-193).
TouchEvent(name, ks, x, y) == Ev(name, ks \cup {"touch_event"}, x, y, 0, 0, 0, "", 0)

\* time.time(), in seconds, read as the milliseconds a DOM timeStamp holds.
TouchTimeStamp == now \div 1000

set_touching(m, v) == [m EXCEPT !.touching = v]

TouchStart(m, event, fail) ==
    Handled("_on_touch_start", m, event, TouchTimeStamp,
            handle_interaction_event(m, event, TouchTimeStamp, fail))

\* _on_touch_start(locs): lines 143-156.
OnTouchStart(failures) ==
    /\ phase = "live"
    /\ \E loc \in TouchLocs, fail \in failures :
        TouchStart(set_touching(Self, TRUE),
                   TouchEvent("mousedown", Offsets \cup {"button"}, loc[1], loc[2]), fail)
    /\ UNCHANGED <<construct_error, on_close_calls, comm_open, now, alive>>

TouchEnd(m, event, fail) ==
    Handled("_on_touch_end", m, event, TouchTimeStamp,
            set_touching(handle_interaction_event(m, event, TouchTimeStamp, fail), FALSE))

\* _on_touch_end(): lines 158-168.
OnTouchEnd(failures) ==
    /\ phase = "live"
    /\ \E fail \in failures : TouchEnd(Self, TouchEvent("mouseup", {"button"}, 0, 0), fail)
    /\ UNCHANGED <<construct_error, on_close_calls, comm_open, now, alive>>

TouchMove(m, event, fail) ==
    Handled("_on_touch_move", m, event, TouchTimeStamp,
            handle_interaction_event(m, event, TouchTimeStamp, fail))

\* _on_touch_move(locs): lines 171-194.
OnTouchMove(failures) ==
    /\ phase = "live"
    /\ \E loc \in TouchLocs, fail \in failures :
        IF now - last_touch < 10
        THEN /\ Commit(Self)
             /\ last' = Callback("_on_touch_move", NoEvent, NoEvent, FALSE, 0)
             /\ UNCHANGED <<lastMove, moveInjected>>
        ELSE TouchMove([Self EXCEPT !.last_touch = now],
                       TouchEvent("mousemove", Offsets, loc[1], loc[2]), fail)
    /\ UNCHANGED <<construct_error, on_close_calls, comm_open, now, alive>>

\* The host calls full_render() or quick_render() itself.
Render(name, r) ==
    /\ Commit(r)
    /\ last' = Callback(name, NoEvent, NoEvent, FALSE, 0)
    /\ Remember(Self, NoEvent, r)

FullRender(failures) ==
    /\ phase = "live"
    /\ \E fail \in failures : Render("full_render", full_render(Self, fail))
    /\ UNCHANGED <<construct_error, on_close_calls, comm_open, now, alive>>

QuickRender(failures) ==
    /\ phase = "live"
    /\ \E fail \in failures : Render("quick_render", quick_render(Self, fail))
    /\ UNCHANGED <<construct_error, on_close_calls, comm_open, now, alive>>

\* close(): lines 411-413.  Widget.close() closes the comm; then the callback.
Close ==
    /\ phase = "live"
    /\ on_close_calls < MaxClose
    /\ comm_open' = FALSE
    /\ on_close_calls' = on_close_calls + 1
    /\ Commit(Self)
    /\ last' = Callback("close", NoEvent, NoEvent, FALSE, 0)
    /\ UNCHANGED <<construct_error, now, alive, lastMove, moveInjected>>

\* __del__(): lines 415-417; the object is gone afterwards.
Del ==
    /\ phase = "live"
    /\ on_close_calls < MaxClose
    /\ comm_open' = FALSE
    /\ on_close_calls' = on_close_calls + 1
    /\ Commit([Self EXCEPT !.phase = "finalized"])
    /\ last' = Callback("__del__", NoEvent, NoEvent, FALSE, 0)
    /\ UNCHANGED <<construct_error, now, alive, lastMove, moveInjected>>

\* The clock moves on to a later instant.
Tick(instants) ==
    /\ \E t \in instants : Epoch + t > now /\ now' = Epoch + t
    /\ UNCHANGED <<phase, construct_error, selfVars, on_close_calls, comm_open, alive,
                   calls, raised, last, lastMove, moveInjected>>

\* The render window is destroyed by its owner: the weak reference goes dead.
RenderWindowDestroyed ==
    /\ phase = "live"
    /\ alive
    /\ alive' = FALSE
    /\ UNCHANGED <<phase, construct_error, selfVars, on_close_calls, comm_open, now,
                   calls, raised, last, lastMove, moveInjected>>

-----------------------------------------------------------------------------
(* Specifications *)

\* The variables hold the session m, and nothing has happened to it yet.
Holds(m) ==
    /\ phase = m.phase
    /\ quality = m.quality
    /\ touching = m.touching
    /\ last_touch = m.last_touch
    /\ last_render_time = m.last_render_time
    /\ quick_render_delay_sec = m.quick_render_delay_sec
    /\ adaptive_render_delay = m.adaptive_render_delay
    /\ last_mouse_move_event = m.last_mouse_move_event
    /\ track_mouse_move = m.track_mouse_move
    /\ message_timestamp_offset = m.message_timestamp_offset
    /\ width = m.width
    /\ height = m.height
    /\ dragging = m.dragging
    /\ error = m.error
    /\ log_events = m.log_events
    /\ watch_wheel = m.watch_wheel
    /\ full_last_call = m.full_last_call
    /\ quick_last_call = m.quick_last_call
    /\ now = m.now
    /\ alive = m.alive
    /\ calls = <<>>
    /\ raised = NoneVal
    /\ construct_error = NoneVal
    /\ on_close_calls = 0
    /\ comm_open = TRUE
    /\ last = Callback("none", NoEvent, NoEvent, FALSE, 0)
    /\ lastMove = <<>>
    /\ moveInjected = FALSE

\* A session constructed with the default quality, then configured by the host
\* through the public attributes track_mouse_move and adaptive_render_delay.
Session(log, wheel, track, adaptive) ==
    [Init__(Unconstructed(Epoch), log, wheel, 80, FALSE)
        EXCEPT !.track_mouse_move = track, !.adaptive_render_delay = adaptive]

\* Configurations: the defaults, and each switch flipped.
Configurations ==
    { Session(TRUE, TRUE, FALSE, TRUE), Session(FALSE, TRUE, FALSE, TRUE),
      Session(TRUE, FALSE, FALSE, TRUE), Session(TRUE, TRUE, TRUE, TRUE) }

Init == \E m \in Configurations : Holds(m)

\* The interaction protocol with every collaborator call succeeding.
Next ==
    \/ Interaction(DomEvents, Prompt, {FALSE})
    \/ OnTouchStart({FALSE})
    \/ OnTouchEnd({FALSE})
    \/ OnTouchMove({FALSE})
    \/ Tick(Instants)

Spec == Init /\ [][Next]_vars

\* The default session, whose renderer or encoder may fail on any frame and
\* whose render window may be destroyed at any moment.
InitDefault == Holds(Session(TRUE, TRUE, FALSE, TRUE))

NextFailures ==
    \/ Interaction(DomEvents, Prompt, BOOLEAN)
    \/ OnTouchStart(BOOLEAN)
    \/ OnTouchEnd(BOOLEAN)
    \/ FullRender(BOOLEAN)
    \/ QuickRender(BOOLEAN)
    \/ RenderWindowDestroyed

SpecFailures == InitDefault /\ [][NextFailures]_vars

\* Pointer moves of every staleness, in a session that tracks them or not.
InitDelay == \E m \in {Session(TRUE, TRUE, TRUE, TRUE), Session(FALSE, TRUE, FALSE, TRUE)} : Holds(m)

LeftButtonEvents == { e \in ButtonEvents : e.button = 0 }

NextDelay == Interaction(MouseMoveEvents \cup LeftButtonEvents, Latency, {FALSE})

SpecDelay == InitDelay /\ [][NextDelay]_vars

\* Pointer moves of every staleness among touch callbacks, on a moving clock.
NextAdapt ==
    \/ Interaction(MouseMoveEvents \cup LeftButtonEvents, Jitter, {FALSE})
    \/ OnTouchStart({FALSE})
    \/ OnTouchEnd({FALSE})
    \/ OnTouchMove({FALSE})
    \/ Tick(Instants)

SpecAdapt == InitDelay /\ [][NextAdapt]_vars

\* Render requests of the handler and of the host, on a clock fine enough to
\* fall inside and outside both throttles' waits.
NextThrottle ==
    \/ Interaction(DomEvents, Prompt, {FALSE})
    \/ FullRender({FALSE})
    \/ QuickRender({FALSE})
    \/ Tick(FineInstants)

SpecThrottle == InitDefault /\ [][NextThrottle]_vars

\* Teardown, among button and key events.
NextLifecycle ==
    \/ Interaction(ButtonEvents \cup KeyEvents, Prompt, {FALSE})
    \/ Close
    \/ Del
    \/ RenderWindowDestroyed

SpecLifecycle == InitDefault /\ [][NextLifecycle]_vars

\* Construction with any quality, then interaction.
InitConstruct == Holds(Unconstructed(Epoch))

NextConstruct ==
    \/ Construct
    \/ Interaction(ButtonEvents \cup MouseMoveEvents, Prompt, BOOLEAN)

SpecConstruct == InitConstruct /\ [][NextConstruct]_vars

-----------------------------------------------------------------------------
(* Properties *)

Ops(trace) == { trace[i].op : i \in 1..Len(trace) }
Count(trace, ops) == Cardinality({ i \in 1..Len(trace) : trace[i].op \in ops })
Abs(n) == IF n < 0 THEN 0 - n ELSE n

ButtonPresses ==
    {"LeftButtonPressEvent", "RightButtonPressEvent", "MiddleButtonPressEvent"}
ButtonReleases ==
    {"LeftButtonReleaseEvent", "RightButtonReleaseEvent", "MiddleButtonReleaseEvent"}

\* The last callback gave the handler an event of this name, and the touch
\* session let it through.
TookEvent(name) == last.accepted /\ last.event.event = name

HandlerCalled == last.op = "handle_interaction_event"

\* C1: last-write-wins coalescing.  Every mouse move injected into the
\* interactor carries the position of the pointermove accepted last; handling
\* a pointermove injects no button event, a pointerdown exactly one press and a
\* pointerup exactly one release; and once a pointerup is handled the pending
\* move is gone and the position of the latest pointermove has been injected.
C1_LastWriteWins ==
    /\ \A i \in 1..Len(calls) :
          calls[i].op = "MouseMoveEvent" => lastMove = <<PositionAt(calls, i)>>
    /\ TookEvent("mousemove") => Count(calls, ButtonPresses \cup ButtonReleases) = 0
    /\ TookEvent("mousedown") =>
          Count(calls, ButtonPresses) = 1 /\ Count(calls, ButtonReleases) = 0
    /\ TookEvent("mouseup") =>
          /\ Count(calls, ButtonReleases) = 1 /\ Count(calls, ButtonPresses) = 0
          /\ last_mouse_move_event = <<>>
          /\ lastMove # <<>> => moveInjected

\* A pointerup flushed the pending move, which held the second pointer position.
C1_Witness ==
    /\ TookEvent("mouseup") /\ HandlerCalled
    /\ Count(calls, {"MouseMoveEvent"}) = 1
    /\ lastMove = << <<62, 82>> >>
    /\ moveInjected

\* C2: a pointermove handled while the session is not dragging and does not
\* track moves requests no render and injects nothing: the trace holds at most
\* the raw event log's append, the event becomes the pending move, and dragging,
\* the delay, the error and the render clocks stay as they were.
C2_IdleMoveOnlyBuffers ==
    [][ (last'.accepted /\ last'.event.event = "mousemove"
            /\ ~dragging' /\ ~track_mouse_move')
        => /\ Ops(calls') \subseteq {"logged_events.append"}
           /\ last_mouse_move_event' = <<last'.handled>>
           /\ UNCHANGED <<dragging, quick_render_delay_sec, error, last_render_time,
                          full_last_call, quick_last_call>> ]_vars

\* An idle pointermove was buffered: it is pending, and was not injected.
C2_Witness ==
    /\ TookEvent("mousemove") /\ HandlerCalled
    /\ ~dragging /\ ~track_mouse_move
    /\ lastMove = << <<62, 82>> >>
    /\ last_mouse_move_event = <<last.handled>>
    /\ ~moveInjected

\* The session's fields an event could change.
eventFields ==
    <<touching, last_touch, last_render_time, quick_render_delay_sec,
      last_mouse_move_event, message_timestamp_offset, dragging, error,
      full_last_call, quick_last_call>>

\* C3 (amended): while touching, an event that is not touch-tagged is dropped:
\* no field of the session changes, nothing is injected and no render is
\* requested; the raw event log, and only it, gains the event when event
\* logging is on.
C3_DroppedButLogged ==
    [][ (HandlerCalled' /\ ~last'.accepted)
        => /\ UNCHANGED eventFields
           /\ calls' = IF log_events THEN <<Call("logged_events.append")>> ELSE <<>> ]_vars

\* C3 (as stated): a dropped event leaves the diagnostic logs unchanged too.
C3_DroppedSilently ==
    [][ (HandlerCalled' /\ ~last'.accepted)
        => /\ UNCHANGED eventFields
           /\ calls' = <<>> ]_vars

\* A non-touch pointerdown dropped during a touch session.
C3_Witness ==
    /\ HandlerCalled /\ ~last.accepted
    /\ last.event.event = "mousedown"
    /\ touching
    /\ calls = <<Call("logged_events.append")>>

\* C4: the quick-render delay of a constructed session lies in [0.001 s, 2.0 s].
C4_DelayInRange ==
    phase = "live" =>
        /\ quick_render_delay_sec >= 1000
        /\ quick_render_delay_sec <= 2000000

\* Stale pointermoves have driven the delay up to the end of its range.
C4_Witness ==
    /\ TookEvent("mousemove")
    /\ quick_render_delay_sec = 2000000

\* C5 (as stated): over any sequence of teardown calls the cleanup callback is
\* invoked at most once.
C5_OnCloseOnce == on_close_calls <= 1

\* C6: handling a keydown or keyup injects the key event (KeyPress then Char;
\* KeyRelease) and requests a full render exactly when the key is none of
\* Shift, Control, Alt.
C6_ModifierKeysDoNotRender ==
    (last.accepted /\ last.event.event \in {"keydown", "keyup"}) =>
        /\ "full_render" \in Ops(calls) <=> last.event.key \notin {"Shift", "Control", "Alt"}
        /\ last.event.event = "keydown" =>
              /\ Count(calls, {"KeyPressEvent"}) = 1 /\ Count(calls, {"CharEvent"}) = 1
              /\ LastIndex(calls, {"KeyPressEvent"}, Len(calls))
                    < LastIndex(calls, {"CharEvent"}, Len(calls))
        /\ last.event.event = "keyup" => Count(calls, {"KeyReleaseEvent"}) = 1

\* Alt pressed: injected, not rendered.
C6_Witness ==
    /\ TookEvent("keydown")
    /\ last.event.key = "Alt"
    /\ "CharEvent" \in Ops(calls)
    /\ "full_render" \notin Ops(calls)

RoundsTo(r, n, w, b) ==
    /\ 2 * Abs(r * b - n * w) <= b
    /\ 2 * Abs(r * b - n * w) = b => r % 2 = 0

\* C9: an event carrying offsetX and the bounding rectangle reaches the
\* dispatch with each offset replaced by round(offset * canvas / rectangle),
\* nothing else changed, and that is the position the interactor is given; an
\* event without boundingRectWidth reaches it as it came.
C9_Rescaling ==
    /\ ({"offsetX", "boundingRectWidth"} \subseteq last.event.keys) =>
          /\ RoundsTo(last.handled.offsetX, last.event.offsetX, width,
                      last.event.boundingRectWidth)
          /\ RoundsTo(last.handled.offsetY, last.event.offsetY, height,
                      last.event.boundingRectHeight)
          /\ last.handled = [last.event EXCEPT !.offsetX = last.handled.offsetX,
                                               !.offsetY = last.handled.offsetY]
    /\ "boundingRectWidth" \notin last.event.keys => last.handled = last.event
    /\ TookEvent("mouseenter") =>
          PositionAt(calls, Len(calls)) = <<last.handled.offsetX,
                                            height - last.handled.offsetY>>

\* offsetX = 50 in a rectangle 100 wide, on a canvas 200 wide, became 100.
C9_Witness ==
    /\ TookEvent("mouseenter")
    /\ last.event.offsetX = 50 /\ last.event.boundingRectWidth = 100 /\ width = 200
    /\ last.handled.offsetX = 100
    /\ PositionAt(calls, Len(calls)) = <<100, 20>>

\* C10: __init__ raises ValueError exactly for a quality below 0 or above 100,
\* before any call to the renderer; with a quality in range it fails only if
\* the first frame does; and a live session encodes every frame with a quality
\* in range and never raises ValueError.
C10_QualityCheckedAtConstruction ==
    /\ last.op = "__init__" =>
          /\ (last.arg < 0 \/ last.arg > 100) <=> construct_error = "ValueError"
          /\ construct_error = "ValueError" => phase = "failed" /\ Ops(calls) = {"raise"}
          /\ (last.arg >= 0 /\ last.arg <= 100) =>
                \/ phase = "live" /\ quality = last.arg /\ construct_error = NoneVal
                \/ phase = "failed" /\ construct_error = FrameFailure
    /\ phase = "live" =>
          /\ quality >= 0 /\ quality <= 100
          /\ raised = NoneVal /\ error # "ValueError"
          /\ \A i \in 1..Len(calls) : calls[i].op = "save" => calls[i].x = quality

\* Quality 100 was accepted, and a later frame encoded with it.
C10_Witness ==
    /\ phase = "live"
    /\ quality = 100
    /\ HandlerCalled
    /\ "save" \in Ops(calls)

TookDiscrete ==
    /\ last.accepted
    /\ \/ last.event.event \in {"mousedown", "mouseup", "keydown", "keyup"}
       \/ last.event.event = "wheel" /\ watch_wheel

\* What a discrete event injects for itself (a keydown's Char follows its KeyPress).
OwnInjections ==
    ButtonPresses \cup ButtonReleases
        \cup {"KeyPressEvent", "KeyReleaseEvent",
              "MouseWheelForwardEvent", "MouseWheelBackwardEvent"}

\* C12: once a discrete event is handled nothing is pending; a move that was
\* pending has been injected once, at its own position, before the event's own
\* injection; and with nothing pending no mouse move is injected.
C12_FlushBeforeDiscreteEvent ==
    [][ TookDiscrete' =>
        /\ last_mouse_move_event' = <<>>
        /\ Count(calls', {"MouseMoveEvent"}) <= 1
        /\ Count(calls', OwnInjections) = 1
        /\ "MouseMoveEvent" \in Ops(calls') =>
              LastIndex(calls', {"MouseMoveEvent"}, Len(calls'))
                 < LastIndex(calls', OwnInjections, Len(calls'))
        /\ last_mouse_move_event # <<>> =>
              /\ "MouseMoveEvent" \in Ops(calls')
              /\ PositionAt(calls', LastIndex(calls', {"MouseMoveEvent"}, Len(calls')))
                    = EventPosition(Self, last_mouse_move_event[1])
        /\ (last_mouse_move_event = <<>> /\ calls' # calls) =>
              "MouseMoveEvent" \notin Ops(calls') ]_vars

\* A keydown flushed the pending move before its KeyPress.
C12_Witness ==
    /\ TookEvent("keydown") /\ HandlerCalled
    /\ lastMove = << <<62, 82>> >>
    /\ "MouseMoveEvent" \in Ops(calls)
    /\ LastIndex(calls, {"MouseMoveEvent"}, Len(calls))
          < LastIndex(calls, {"KeyPressEvent"}, Len(calls))
    /\ last_mouse_move_event = <<>>

\* C13: handling a pointerleave injects one leave notification and no mouse
\* move, leaves nothing pending, requests a full render and ends not dragging,
\* with one button release injected exactly if the session was dragging;
\* handling a pointerenter injects one enter notification and no mouse move,
\* leaves nothing pending, requests no render and leaves dragging as it was.
C13_LeaveAndEnter ==
    [][ /\ TookEvent("mouseleave")' =>
              /\ Count(calls', {"LeaveEvent"}) = 1
              /\ "MouseMoveEvent" \notin Ops(calls')
              /\ last_mouse_move_event' = <<>>
              /\ Count(calls', {"full_render"}) = 1
              /\ LastIndex(calls', {"LeaveEvent"}, Len(calls'))
                    < LastIndex(calls', {"full_render"}, Len(calls'))
              /\ ~dragging'
              /\ Count(calls', ButtonPresses) = 0
              /\ dragging => Count(calls', ButtonReleases) = 1
              /\ (~dragging /\ calls' # calls) => Count(calls', ButtonReleases) = 0
        /\ TookEvent("mouseenter")' =>
              /\ Count(calls', {"EnterEvent"}) = 1
              /\ "MouseMoveEvent" \notin Ops(calls')
              /\ last_mouse_move_event' = <<>>
              /\ Ops(calls') \cap {"full_render", "quick_render", "Render"} = {}
              /\ Count(calls', ButtonPresses \cup ButtonReleases) = 0
              /\ dragging' = dragging ]_vars

\* A drag ended by leaving the canvas, a pending move discarded with it.
C13_Witness ==
    /\ TookEvent("mouseleave") /\ HandlerCalled
    /\ Count(calls, ButtonReleases) = 1
    /\ "full_render.body" \in Ops(calls)
    /\ "MouseMoveEvent" \notin Ops(calls)
    /\ ~dragging /\ last_mouse_move_event = <<>>

\* C14 (as stated): once a pointerup has been handled the session is not
\* dragging, whether or not a call made by the handler failed.
C14_NotDraggingAfterPointerUp == TookEvent("mouseup") => ~dragging

\* The last callback handled a pointermove that the delay controller takes:
\* dragging or tracking, adaptive, not touching.
Qualifies ==
    /\ TookEvent("mousemove")
    /\ dragging \/ track_mouse_move
    /\ adaptive_render_delay
    /\ ~touching

\* now - (eventTimestamp + clockOffset) of the pointermove handled last, in ms.
Staleness == now - (last.arg + message_timestamp_offset[1])

Clamp(d) == IF d < 1000 THEN 1000 ELSE IF d > 2000000 THEN 2000000 ELSE d

\* The delay (in microseconds) that follows d at the given staleness (in ms).
Controlled(d, staleness) ==
    IF 2000 * staleness > 3 * d THEN Clamp(Times105(d))
    ELSE IF 2000 * staleness < d THEN Clamp(Over105(d))
    ELSE d

\* C15: the quick-render delay changes only in a step that handles a
\* qualifying pointermove, and such a step takes it to clamp(delay * 1.05) if
\* the staleness exceeds 1.5 delays, to clamp(delay / 1.05) if it is below half
\* a delay, and leaves it otherwise; every other step leaves it as it was.
C15_DelayController ==
    [][ /\ quick_render_delay_sec' # quick_render_delay_sec =>
              /\ Qualifies'
              /\ quick_render_delay_sec' = Controlled(quick_render_delay_sec, Staleness')
        /\ (Qualifies' /\ (calls' # calls \/ last' # last)) =>
              quick_render_delay_sec' = Controlled(quick_render_delay_sec, Staleness') ]_vars

\* A pointermove 3 ms stale raised the delay from 1 ms to 1.05 ms.
C15_Witness ==
    /\ Qualifies /\ HandlerCalled
    /\ Staleness = 3
    /\ quick_render_delay_sec = 1050

\* C16 (as stated): when the body of full_render has run, whatever move was
\* pending has been injected and nothing is pending any more.
C16_FullRenderFlushes ==
    "full_render.body" \in Ops(calls) => last_mouse_move_event = <<>>

\* Calls that reach the render window or its interactor.
RendererCalls ==
    OwnInjections \cup
        {"MouseMoveEvent", "EnterEvent", "LeaveEvent", "CharEvent",
         "SetEventPosition", "SetKeySym", "SetKeyCode", "SetRepeatCount",
         "SetShiftKey", "SetControlKey", "SetAltKey",
         "Render", "GetRGBACharPixelData"}

\* C17 (as stated): an event handled after close() makes no call to the
\* render window or its interactor.
C17_NoRendererAccessAfterClose ==
    (on_close_calls > 0 /\ HandlerCalled) => Ops(calls) \cap RendererCalls = {}

\* C18 (as stated): while no collaborator call fails, the error field stays unset.
C18_ErrorStaysUnset == error = NoneVal

\* C19 (as stated, its particular case): a drag started with the right or the
\* middle button and ended by the pointerleave handled next releases that
\* same button.
C19_LeaveReleasesPressedButton ==
    [][ (/\ TookEvent("mousedown") /\ dragging
         /\ last.event.button \in {1, 2}
         /\ TookEvent("mouseleave")') =>
        (ButtonName(last.event.button) \o "ButtonReleaseEvent") \in Ops(calls') ]_vars

\* A touching session is dragging.
TouchingIsDragging == touching => dragging

\* C20 (as stated): between callbacks a touching session is dragging; a touch start leaves
\* the session touching and dragging, a touch end neither; and an event the
\* handler is given by the host while touching is dropped, so it cannot end
\* the drag.
C20_TouchingImpliesDragging ==
    /\ TouchingIsDragging
    /\ last.op = "_on_touch_start" => touching /\ dragging
    /\ last.op = "_on_touch_end" => ~touching /\ ~dragging
    /\ (HandlerCalled /\ touching) => ~last.accepted

====
